---- MODULE Spec2Model ----
(***************************************************************************)
(* Identity reconciliation service (src/main.py): the contacts table and   *)
(* the POST /identify handler.                                             *)
(*                                                                         *)
(* An Optional value (a nullable column, an Optional request field) is a   *)
(* sequence of length 0 (None / SQL NULL) or 1 (the value).                *)
(* The contacts table is the sequence of its committed rows by ascending   *)
(* id, the order of their INSERTs; a query that has no ORDER BY returns    *)
(* the rows in that order.                                                 *)
(***************************************************************************)
EXTENDS Integers, Sequences, FiniteSets, TLC

\* ---- bounds of the model ----
MaxContacts == 3
MaxConcurrentContacts == 2
MaxTime == 1

\* ---- values ----
None == <<>>
Some(v) == <<v>>

Emails == {None, Some("e1"), Some("e2")}
Phones == {None, Some("p1"), Some("p2")}

\* Every JSON body the endpoint can be sent (fields absent or present).
Requests == [email : Emails, phone_number : Phones]

Procs == {1, 2}

VARIABLES
    contacts,   \* committed rows of table "contacts", by ascending id
    seq,        \* last value handed out by the sequence of contacts.id
    last,       \* sequential calls: the last completed call and its response
    pc,         \* concurrent calls: position of each worker in the handler
    call        \* concurrent calls: locals of each worker's current call

vars == <<contacts, seq, last, pc, call>>

\* ---- Python / SQL primitives ----

\* bool(x) of an Optional[str]: None and "" are falsy.
Truthy(x) == x # None /\ x[1] # ""

\* SQLAlchemy `Column == value`: a None value renders as `column IS NULL`,
\* any other value as `column = value`, which is not true of a NULL column.
ColumnEq(col, x) ==
    IF x = None THEN col = None
    ELSE col # None /\ col[1] = x[1]

\* SQL equality in place of Python's: NULL equals nothing, itself included.
PyEqNullUnequal(a, b) == a # None /\ b # None /\ a = b

\* Python `a == b` on Optional[str].
PyEq(a, b) == a = b

Range(s) == {s[i] : i \in DOMAIN s}

\* SELECT by primary key: the committed row of that id.
ById(rows, id) == CHOOSE c \in Range(rows) : c.id = id
HasId(rows, id) == \E c \in Range(rows) : c.id = id

\* ---- the Contact row ----
NewContact(id, email, phone_number, linked_id, link_precedence, t) ==
    [id |-> id, email |-> email, phone_number |-> phone_number,
     linked_id |-> linked_id, link_precedence |-> link_precedence,
     created_at |-> t]

\* What datetime.utcnow can return when a row is flushed: the wall clock of
\* the host, which can stand still between two readings and can be set back.
ClockReadings == 0..MaxTime

\* The serial primary key handed out by the next INSERT: the next value of
\* the column's sequence, whose last value is s.  A value handed out is never
\* handed out again, whether or not the INSERT is committed.
NextId(s) == s + 1

\* The table once row `new` is committed: rows by ascending id.
InsertRow(rows, new) ==
    SelectSeq(rows, LAMBDA c : c.id < new.id) \o <<new>>
        \o SelectSeq(rows, LAMBDA c : c.id > new.id)

\* ---- the handler, step by step ----

\* root_validator: at least one of the two fields must be given.
ValidRequest(req) == ~(req.email = None /\ req.phone_number = None)

\* session.query(Contact).filter(or_(email == .., phone_number == ..)).all()
FindExisting(rows, req) ==
    SelectSeq(rows, LAMBDA c :
        ColumnEq(c.email, req.email) \/ ColumnEq(c.phone_number, req.phone_number))

\* min(existing_contacts, key=created_at): the first row of least created_at.
MinByCreatedAt(rows) ==
    LET i == CHOOSE i \in DOMAIN rows :
                 /\ \A j \in DOMAIN rows : rows[i].created_at <= rows[j].created_at
                 /\ \A j \in 1..(i - 1) : rows[j].created_at # rows[i].created_at
    IN rows[i]

\* The filter on the primary's id left out: every row read is a secondary.
AllExisting(existing, primary) == existing

\* [c for c in existing_contacts if c.id != primary_contact.id]
SecondaryContacts(existing, primary) ==
    SelectSeq(existing, LAMBDA c : c.id # primary.id)

\* any(c.email == email and c.phone_number == phone_number for c in existing)
HasExactPair(existing, req) ==
    \E i \in DOMAIN existing :
        /\ PyEq(existing[i].email, req.email)
        /\ PyEq(existing[i].phone_number, req.phone_number)

\* The response body; list(set(..)) has no defined order, so emails and
\* phoneNumbers are sets.
Response(primary, secondaries) ==
    LET all == <<primary>> \o secondaries
    IN [primaryContactId |-> primary.id,
        emails |-> {all[i].email[1] : i \in {j \in DOMAIN all : Truthy(all[j].email)}},
        phoneNumbers |-> {all[i].phone_number[1] :
                             i \in {j \in DOMAIN all : Truthy(all[j].phone_number)}},
        secondaryContactIds |-> [i \in DOMAIN secondaries |-> secondaries[i].id]]

\* The branch `if not existing_contacts`: one new primary row.
CreatePrimary(rows, req, id, t) ==
    LET new == NewContact(id, req.email, req.phone_number, None, "primary", t)
    IN [contacts |-> InsertRow(rows, new),
        resp |-> [primaryContactId |-> new.id,
                  emails |-> IF Truthy(new.email) THEN {new.email[1]} ELSE {},
                  phoneNumbers |-> IF Truthy(new.phone_number)
                                   THEN {new.phone_number[1]} ELSE {},
                  secondaryContactIds |-> <<>>]]

\* The branch with matches, also rewriting every other primary among the rows
\* read into a secondary of the oldest one.
LinkToExistingDemoting(rows, existing, req, id, t) ==
    LET primary == MinByCreatedAt(existing)
        secondaries == SecondaryContacts(existing, primary)
        demoted == [i \in DOMAIN rows |->
                      IF /\ rows[i].id # primary.id
                         /\ rows[i].link_precedence = "primary"
                         /\ \E j \in DOMAIN existing : existing[j].id = rows[i].id
                      THEN [rows[i] EXCEPT !.link_precedence = "secondary",
                                           !.linked_id = Some(primary.id)]
                      ELSE rows[i]]
    IN IF ~HasExactPair(existing, req)
       THEN LET new == NewContact(id, req.email, req.phone_number,
                                  Some(primary.id), "secondary", t)
            IN [contacts |-> InsertRow(demoted, new),
                resp |-> Response(primary, Append(secondaries, new))]
       ELSE [contacts |-> demoted, resp |-> Response(primary, secondaries)]

\* The branch with matches, the new secondary row left without its link.
LinkToExistingUnlinked(rows, existing, req, id, t) ==
    LET primary == MinByCreatedAt(existing)
        secondaries == SecondaryContacts(existing, primary)
    IN IF ~HasExactPair(existing, req)
       THEN LET new == NewContact(id, req.email, req.phone_number,
                                  None, "secondary", t)
            IN [contacts |-> InsertRow(rows, new),
                resp |-> Response(primary, Append(secondaries, new))]
       ELSE [contacts |-> rows, resp |-> Response(primary, secondaries)]

\* The branch with matches: a new secondary row unless the exact pair is among
\* the rows read, then the response built from the rows read.
LinkToExisting(rows, existing, req, id, t) ==
    LET primary == MinByCreatedAt(existing)
        secondaries == SecondaryContacts(existing, primary)
    IN IF ~HasExactPair(existing, req)
       THEN LET new == NewContact(id, req.email, req.phone_number,
                                  Some(primary.id), "secondary", t)
            IN [contacts |-> InsertRow(rows, new),
                resp |-> Response(primary, Append(secondaries, new))]
       ELSE [contacts |-> rows, resp |-> Response(primary, secondaries)]

\* Does a call that read `existing` insert a row?
Writes(existing, req) == existing = <<>> \/ ~HasExactPair(existing, req)

\* The writes and the response of one call that read `existing`, stamps its
\* row (if it inserts one) with t, is given `id` by the sequence and commits
\* on table state `rows`.
Complete(rows, existing, req, id, t) ==
    IF existing = <<>> THEN CreatePrimary(rows, req, id, t)
    ELSE LinkToExisting(rows, existing, req, id, t)

\* ---- state machine ----

NoCall == [kind |-> "none"]
IdleCall == [overlap |-> {}]

Init ==
    /\ contacts = <<>>
    /\ seq = 0
    /\ last = NoCall
    /\ pc = [p \in Procs |-> "idle"]
    /\ call = [p \in Procs |-> IdleCall]

\* Does this call resubmit the pair of the call completed just before it?
Resubmits(req) ==
    last.kind = "ok" /\ last.email = req.email /\ last.phone_number = req.phone_number

\* One whole call of identify, with no other call running; t is the clock
\* reading its flush takes if it inserts a row.
Identify(req, t) ==
    /\ ValidRequest(req)
    /\ LET existing == FindExisting(contacts, req)
           out == Complete(contacts, existing, req, NextId(seq), t)
       IN /\ Writes(existing, req) => seq < MaxContacts
          /\ contacts' = out.contacts
          /\ seq' = IF Writes(existing, req) THEN NextId(seq) ELSE seq
          /\ last' = [kind |-> "ok", email |-> req.email,
                      phone_number |-> req.phone_number,
                      pre |-> contacts, resp |-> out.resp,
                      resubmit |-> Resubmits(req),
                      prev_resp |-> IF Resubmits(req) THEN <<last.resp>> ELSE <<>>]
    /\ UNCHANGED <<pc, call>>

\* A body with neither field: the validator raises before the handler runs.
IdentifyInvalid(req) ==
    /\ ~ValidRequest(req)
    /\ last' = [kind |-> "invalid", email |-> req.email,
                phone_number |-> req.phone_number, pre |-> contacts]
    /\ UNCHANGED <<contacts, seq, pc, call>>

Next ==
    \/ \E req \in Requests, t \in ClockReadings : Identify(req, t)
    \/ \E req \in Requests : IdentifyInvalid(req)

\* Calls one at a time, any body.
Spec == Init /\ [][Next]_vars

\* Calls one at a time, every body carrying both an email and a phone.
BothFields == {req \in Requests : req.email # None /\ req.phone_number # None}

NextBothFields ==
    \E req \in BothFields, t \in ClockReadings : Identify(req, t)

SpecBothFields == Init /\ [][NextBothFields]_vars

\* ---- concurrent calls: workers sharing the table ----
\* A worker's call opens its session and runs the query.  If it inserts, its
\* commit flushes the new row: the flush reads the clock for created_at, then
\* sends the INSERT, which takes the id from the sequence, and then the
\* transaction commits and the row becomes visible to the queries of other
\* workers.  After the commit the new row is refreshed and every row read
\* before it is read again when the response first touches it.  The worker
\* waits on the database at each of these statements, so the steps of other
\* workers can fall between any two of them.

\* The workers whose call is running.
InFlight == {q \in Procs : pc[q] \notin {"idle", "done"}}

\* The workers whose call may still take an id from the sequence.
MayInsert == {q \in Procs : pc[q] \in {"started", "queried", "stamped"}}

\* session = SessionLocal(): the call begins.  The bound on the ids handed
\* out holds back a call that may insert; a call whose exact pair is already
\* committed will not.
Start(p, req) ==
    /\ pc[p] = "idle"
    /\ ValidRequest(req)
    /\ \/ seq + Cardinality(MayInsert) < MaxConcurrentContacts
       \/ ~Writes(FindExisting(contacts, req), req)
    /\ pc' = [pc EXCEPT ![p] = "started"]
    /\ call' = [call EXCEPT ![p] = [req |-> req, store0 |-> contacts,
                                     seq0 |-> seq, overlap |-> InFlight]]
    /\ UNCHANGED <<contacts, seq, last>>

\* The SELECT of the call.
Query(p) ==
    /\ pc[p] = "started"
    /\ pc' = [pc EXCEPT ![p] = "queried"]
    /\ call' = [call EXCEPT ![p] =
                   [req |-> call[p].req, store0 |-> call[p].store0,
                    seq0 |-> call[p].seq0, overlap |-> call[p].overlap,
                    existing |-> FindExisting(contacts, call[p].req)]]
    /\ UNCHANGED <<contacts, seq, last>>

\* The exact pair is among the rows read: no write, the response at once.
Respond(p) ==
    /\ pc[p] = "queried"
    /\ ~Writes(call[p].existing, call[p].req)
    /\ LET out == Complete(contacts, call[p].existing, call[p].req, NextId(seq), 0)
       IN call' = [call EXCEPT ![p] =
                      [req |-> call[p].req, store0 |-> call[p].store0,
                       seq0 |-> call[p].seq0, overlap |-> call[p].overlap,
                       existing |-> call[p].existing,
                       resp |-> out.resp, created |-> {}]]
    /\ pc' = [pc EXCEPT ![p] = "done"]
    /\ UNCHANGED <<contacts, seq, last>>

\* The flush at the head of session.commit() evaluates the column default
\* datetime.utcnow for the new row.
Stamp(p, t) ==
    /\ pc[p] = "queried"
    /\ Writes(call[p].existing, call[p].req)
    /\ pc' = [pc EXCEPT ![p] = "stamped"]
    /\ call' = [call EXCEPT ![p] =
                   [req |-> call[p].req, store0 |-> call[p].store0,
                    seq0 |-> call[p].seq0, overlap |-> call[p].overlap,
                    existing |-> call[p].existing, t |-> t]]
    /\ UNCHANGED <<contacts, seq, last>>

\* The INSERT of the flush: the row takes the next id of the sequence and
\* stays invisible to other workers.
Insert(p) ==
    /\ pc[p] = "stamped"
    /\ pc' = [pc EXCEPT ![p] = "inserted"]
    /\ seq' = NextId(seq)
    /\ call' = [call EXCEPT ![p] =
                   [req |-> call[p].req, store0 |-> call[p].store0,
                    seq0 |-> call[p].seq0, overlap |-> call[p].overlap,
                    existing |-> call[p].existing, t |-> call[p].t,
                    id |-> NextId(seq)]]
    /\ UNCHANGED <<contacts, last>>

\* COMMIT: the row becomes visible to other workers; the session expires
\* every row it holds.
Commit(p) ==
    /\ pc[p] = "inserted"
    /\ LET out == Complete(contacts, call[p].existing, call[p].req,
                           call[p].id, call[p].t)
       IN /\ contacts' = out.contacts
          /\ call' = [call EXCEPT ![p] =
                         [req |-> call[p].req, store0 |-> call[p].store0,
                          seq0 |-> call[p].seq0, overlap |-> call[p].overlap,
                          existing |-> call[p].existing,
                          id |-> call[p].id, created |-> {call[p].id}]]
    /\ pc' = [pc EXCEPT ![p] = "committed"]
    /\ UNCHANGED <<seq, last>>

\* session.refresh(new_contact): the new row is read back by primary key.
Refresh(p) ==
    /\ pc[p] = "committed"
    /\ pc' = [pc EXCEPT ![p] = "refreshed"]
    /\ call' = [call EXCEPT ![p] =
                   [req |-> call[p].req, store0 |-> call[p].store0,
                    seq0 |-> call[p].seq0, overlap |-> call[p].overlap,
                    existing |-> call[p].existing,
                    new |-> ById(contacts, call[p].id), loaded |-> 0,
                    created |-> call[p].created]]
    /\ UNCHANGED <<contacts, seq, last>>

\* The ids of the rows read, in the order the response first touches them:
\* the primary, then the secondaries.
AccessOrder(existing) ==
    IF existing = <<>> THEN <<>>
    ELSE LET primary == MinByCreatedAt(existing)
             secondaries == SecondaryContacts(existing, primary)
         IN <<primary.id>> \o [i \in DOMAIN secondaries |-> secondaries[i].id]

\* The response touches a row read before the commit: the expired row is
\* read again by primary key.
Reload(p) ==
    /\ pc[p] = "refreshed"
    /\ call[p].loaded < Len(call[p].existing)
    /\ LET id == AccessOrder(call[p].existing)[call[p].loaded + 1]
       IN call' = [call EXCEPT ![p] =
                      [req |-> call[p].req, store0 |-> call[p].store0,
                       seq0 |-> call[p].seq0, overlap |-> call[p].overlap,
                       existing |-> [i \in DOMAIN call[p].existing |->
                                        IF call[p].existing[i].id = id
                                        THEN ById(contacts, id)
                                        ELSE call[p].existing[i]],
                       new |-> call[p].new, loaded |-> call[p].loaded + 1,
                       created |-> call[p].created]]
    /\ UNCHANGED <<contacts, seq, last, pc>>

\* The response is complete, built from the rows read again and the
\* refreshed new row.
Finish(p) ==
    /\ pc[p] = "refreshed"
    /\ call[p].loaded = Len(call[p].existing)
    /\ LET out == Complete(contacts, call[p].existing, call[p].req,
                           call[p].new.id, call[p].new.created_at)
       IN call' = [call EXCEPT ![p] =
                      [req |-> call[p].req, store0 |-> call[p].store0,
                       seq0 |-> call[p].seq0, overlap |-> call[p].overlap,
                       existing |-> call[p].existing,
                       resp |-> out.resp, created |-> call[p].created]]
    /\ pc' = [pc EXCEPT ![p] = "done"]
    /\ UNCHANGED <<contacts, seq, last>>

\* session.close(): the response has been sent and the call is over.
Return(p) ==
    /\ pc[p] = "done"
    /\ pc' = [pc EXCEPT ![p] = "idle"]
    /\ call' = [q \in Procs |->
                   IF q = p THEN IdleCall
                   ELSE [call[q] EXCEPT !.overlap = @ \ {p}]]
    /\ UNCHANGED <<contacts, seq, last>>

\* The steps of a call once it has begun.
Handler(p) ==
    \/ Query(p)
    \/ Respond(p)
    \/ \E t \in ClockReadings : Stamp(p, t)
    \/ Insert(p)
    \/ Commit(p)
    \/ Refresh(p)
    \/ Reload(p)
    \/ Finish(p)
    \/ Return(p)

NextConcurrent ==
    \/ \E p \in Procs, req \in Requests : Start(p, req)
    \/ \E p \in Procs : Handler(p)

SpecConcurrent == Init /\ [][NextConcurrent]_vars

\* ---- vocabulary of the claims ----

IsPrimary(c) == c.link_precedence = "primary"
IsSecondary(c) == c.link_precedence = "secondary"

\* Two contacts are directly connected when they share a non-empty email or a
\* non-empty phone.
SharesIdentifier(c, d) ==
    \/ Truthy(c.email) /\ c.email = d.email
    \/ Truthy(c.phone_number) /\ c.phone_number = d.phone_number

RECURSIVE Reach(_, _)
Reach(rows, S) ==
    LET T == S \cup {d \in Range(rows) : \E c \in S : SharesIdentifier(c, d)}
    IN IF T = S THEN S ELSE Reach(rows, T)

\* The cluster of contact c: the maximal connected set of rows around it.
ClusterOf(rows, c) == Reach(rows, {c})

ClusterEmails(K) == {c.email[1] : c \in {d \in K : Truthy(d.email)}}
ClusterPhones(K) == {c.phone_number[1] : c \in {d \in K : Truthy(d.phone_number)}}

\* The older of two contacts: earlier created_at, then lower id.
Older(a, b) ==
    IF a.created_at < b.created_at \/ (a.created_at = b.created_at /\ a.id < b.id)
    THEN a ELSE b

\* The rows the last call added to the table.
Created == {c \in Range(contacts) : ~HasId(last.pre, c.id)}
KeptAll == \A c \in Range(last.pre) : c \in Range(contacts)

\* ---- C1 ----
\* a and b are the primaries of two separate clusters and the last call
\* submitted a's email with b's phone.
MergeCase(a, b) ==
    /\ a.id # b.id /\ IsPrimary(a) /\ IsPrimary(b)
    /\ Truthy(a.email) /\ Truthy(a.phone_number)
    /\ Truthy(b.email) /\ Truthy(b.phone_number)
    /\ a.email # b.email /\ a.phone_number # b.phone_number
    /\ b \notin ClusterOf(last.pre, a)
    /\ last.email = a.email /\ last.phone_number = b.phone_number

\* C1: a call that joins the clusters of primaries a and b keeps the older of
\* the two primary, rewrites the other to a secondary linked to the kept one,
\* and answers with both emails, both phones and the demoted primary's id
\* among the secondaries.
C1_MergeDemotesNewerPrimary ==
    last.kind = "ok" =>
        \A a, b \in Range(last.pre) :
            MergeCase(a, b) =>
                LET kept == Older(a, b)
                    absorbed == IF kept = a THEN b ELSE a
                IN /\ HasId(contacts, kept.id) /\ HasId(contacts, absorbed.id)
                   /\ IsPrimary(ById(contacts, kept.id))
                   /\ IsSecondary(ById(contacts, absorbed.id))
                   /\ ById(contacts, absorbed.id).linked_id = Some(kept.id)
                   /\ last.resp.primaryContactId = kept.id
                   /\ {a.email[1], b.email[1]} \subseteq last.resp.emails
                   /\ {a.phone_number[1], b.phone_number[1]} \subseteq last.resp.phoneNumbers
                   /\ absorbed.id \in Range(last.resp.secondaryContactIds)

\* ---- C2 ----
\* C2: every cluster of stored contacts holds exactly one primary contact.
C2_OnePrimaryPerCluster ==
    \A c \in Range(contacts) :
        Cardinality({d \in ClusterOf(contacts, c) : IsPrimary(d)}) = 1

\* ---- C3 ----
\* C3: the primaryContactId of a response is the id of a stored contact whose
\* precedence is primary.
C3_ResponsePrimaryIsPrimary ==
    last.kind = "ok" =>
        /\ HasId(contacts, last.resp.primaryContactId)
        /\ IsPrimary(ById(contacts, last.resp.primaryContactId))

\* ---- C4 ----
\* C4: every secondary contact links to a contact that is primary.
C4_SecondaryLinksToPrimary ==
    \A c \in Range(contacts) :
        IsSecondary(c) =>
            /\ c.linked_id # None
            /\ HasId(contacts, c.linked_id[1])
            /\ IsPrimary(ById(contacts, c.linked_id[1]))

\* ---- C5 ----
\* C5: a call that resubmits the pair of the call completed just before it
\* creates no contact and returns the response that call returned.
C5_ResubmitIsIdempotent ==
    (last.kind = "ok" /\ last.resubmit) =>
        /\ contacts = last.pre
        /\ last.prev_resp = <<last.resp>>

\* ---- C6 ----
\* No stored contact holds the submitted email or the submitted phone; an
\* absent field is held by nobody.
NoStoredMatch(rows, email, phone_number) ==
    \A c \in Range(rows) :
        /\ ~(email # None /\ c.email = email)
        /\ ~(phone_number # None /\ c.phone_number = phone_number)

\* C6: a submission that matches no stored contact creates exactly one
\* contact, a primary with no link, and the response names it as primary with
\* no secondaries.
C6_UnseenPairCreatesPrimary ==
    (last.kind = "ok" /\ NoStoredMatch(last.pre, last.email, last.phone_number)) =>
        /\ KeptAll
        /\ Cardinality(Created) = 1
        /\ \A n \in Created :
              /\ IsPrimary(n) /\ n.linked_id = None
              /\ last.resp.primaryContactId = n.id
        /\ last.resp.secondaryContactIds = <<>>

\* ---- C7 ----
\* The last call submitted the email of stored contact c with a phone that no
\* stored contact holds.
KnownEmailNewPhone(c) ==
    /\ Truthy(last.email) /\ c.email = last.email
    /\ Truthy(last.phone_number)
    /\ \A d \in Range(last.pre) : d.phone_number # last.phone_number

\* C7: a known email with a new phone creates exactly one contact, a secondary
\* linked to the primary of the email's cluster, and the response has one
\* phone number more than that cluster had.
C7_NewPhoneCreatesSecondary ==
    last.kind = "ok" =>
        \A c \in Range(last.pre) :
            KnownEmailNewPhone(c) =>
                LET K == ClusterOf(last.pre, c)
                IN /\ KeptAll
                   /\ Cardinality(Created) = 1
                   /\ \A n \in Created :
                         /\ IsSecondary(n)
                         /\ \E p \in K : IsPrimary(p) /\ n.linked_id = Some(p.id)
                   /\ Cardinality(last.resp.phoneNumbers) =
                          Cardinality(ClusterPhones(K)) + 1

\* ---- C8 ----
\* The stored contacts that carry the pair of the last call.
Submitted == {c \in Range(contacts) :
                 c.email = last.email /\ c.phone_number = last.phone_number}

\* C8: the response lists every email and phone of the submission's cluster
\* and the id of every secondary member of it.
C8_ResponseCoversCluster ==
    last.kind = "ok" =>
        \A c \in Submitted :
            LET K == ClusterOf(contacts, c)
            IN /\ ClusterEmails(K) \subseteq last.resp.emails
               /\ ClusterPhones(K) \subseteq last.resp.phoneNumbers
               /\ {d.id : d \in {x \in K : IsSecondary(x)}}
                      \subseteq Range(last.resp.secondaryContactIds)

\* ---- C9, C10: vocabulary ----

\* The current calls of workers a and b ran concurrently on the same table
\* state and both have committed.
ConcurrentDone(a, b) ==
    /\ a # b
    /\ pc[a] = "done" /\ pc[b] = "done"
    /\ (a \in call[b].overlap \/ b \in call[a].overlap)
    /\ call[a].store0 = call[b].store0

HoldsPair(rows, req) ==
    \E c \in Range(rows) : c.email = req.email /\ c.phone_number = req.phone_number

\* ---- C9 ----
\* C9: two concurrent calls with the same pair, a pair no stored contact has,
\* create exactly one contact between them.
C9_SamePairCreatesOne ==
    \A a, b \in Procs :
        (/\ ConcurrentDone(a, b)
         /\ call[a].req = call[b].req
         /\ ~HoldsPair(call[a].store0, call[a].req))
        => Cardinality(call[a].created \cup call[b].created) = 1

\* ---- C10 ----
\* The stored contacts a submission touches: the clusters of the contacts that
\* hold its email or its phone.
Touched(rows, req) ==
    UNION {ClusterOf(rows, c) :
              c \in {d \in Range(rows) :
                        \/ Truthy(req.email) /\ d.email = req.email
                        \/ Truthy(req.phone_number) /\ d.phone_number = req.phone_number}}

IdentifiersOf(rows, req) ==
    [emails |-> ClusterEmails(Touched(rows, req))
                    \cup (IF Truthy(req.email) THEN {req.email[1]} ELSE {}),
     phones |-> ClusterPhones(Touched(rows, req))
                    \cup (IF Truthy(req.phone_number) THEN {req.phone_number[1]} ELSE {})]

\* Two submissions with no email and no phone in common, their clusters
\* included.
Disjoint(rows, r1, r2) ==
    /\ IdentifiersOf(rows, r1).emails \cap IdentifiersOf(rows, r2).emails = {}
    /\ IdentifiersOf(rows, r1).phones \cap IdentifiersOf(rows, r2).phones = {}

\* One call run alone on table state rows with the sequence at s, stamping
\* the row it inserts (if it inserts) with t.
Alone(rows, s, req, t) ==
    Complete(rows, FindExisting(rows, req), req, NextId(s), t)

\* The outcomes of the two calls run one after the other, r1 first.
SerialOutcomes(rows, s, r1, r2) ==
    UNION {
        LET o1 == Alone(rows, s, r1, t1)
            s1 == IF o1.contacts = rows THEN s ELSE NextId(s)
        IN {[contacts |-> Alone(o1.contacts, s1, r2, t2).contacts,
             first |-> o1.resp,
             second |-> Alone(o1.contacts, s1, r2, t2).resp] :
                t2 \in ClockReadings} :
        t1 \in ClockReadings}

\* The value of the sequence when the earlier of the two calls began.
SeqBefore(a, b) ==
    IF call[a].seq0 <= call[b].seq0 THEN call[a].seq0 ELSE call[b].seq0

\* The rows the two calls created are separate contacts in separate clusters,
\* neither linked to the other.
Independent(a, b) ==
    \A x \in call[a].created, y \in call[b].created :
        /\ x # y
        /\ ById(contacts, y) \notin ClusterOf(contacts, ById(contacts, x))
        /\ ById(contacts, x).linked_id # Some(y)
        /\ ById(contacts, y).linked_id # Some(x)

\* C10: two concurrent calls with disjoint pairs leave the table and return
\* the responses of the two calls run one after the other, and what they
\* create stays in separate clusters.
C10_DisjointCallsDoNotInterfere ==
    \A a, b \in Procs :
        (/\ ConcurrentDone(a, b)
         /\ Disjoint(call[a].store0, call[a].req, call[b].req))
        => /\ \/ \E o \in SerialOutcomes(call[a].store0, SeqBefore(a, b),
                                              call[a].req, call[b].req) :
                    /\ contacts = o.contacts
                    /\ call[a].resp = o.first /\ call[b].resp = o.second
              \/ \E o \in SerialOutcomes(call[a].store0, SeqBefore(a, b),
                                           call[b].req, call[a].req) :
                    /\ contacts = o.contacts
                    /\ call[b].resp = o.first /\ call[a].resp = o.second
           /\ Independent(a, b)

\* Concurrent calls whose bodies all carry both fields.
NextConcurrentBothFields ==
    \/ \E p \in Procs, req \in BothFields : Start(p, req)
    \/ \E p \in Procs : Handler(p)

SpecConcurrentBothFields == Init /\ [][NextConcurrentBothFields]_vars

\* ---- bodies with an empty-string phone ----
\* phone_number is a plain Optional[str]: "" passes its field validation (an
\* empty email does not pass EmailStr and never reaches the handler).
EmptyPhoneRequests == [email : {None, Some("e1")}, phone_number : {None, Some(""), Some("p1")}]

NextEmptyPhone ==
    \/ \E req \in EmptyPhoneRequests, t \in ClockReadings : Identify(req, t)
    \/ \E req \in EmptyPhoneRequests : IdentifyInvalid(req)

SpecEmptyPhone == Init /\ [][NextEmptyPhone]_vars

\* ---- C11 ----
\* C11: a submission whose email and phone are both empty (absent or the
\* empty string) fails validation and leaves the table as it was.
C11_EmptySubmissionRejected ==
    (last.kind # "none" /\ ~Truthy(last.email) /\ ~Truthy(last.phone_number)) =>
        /\ last.kind = "invalid"
        /\ contacts = last.pre

\* ---- C12 ----
\* C12: every stored contact has a non-empty email or a non-empty phone.
C12_ContactHasIdentifier ==
    \A c \in Range(contacts) : Truthy(c.email) \/ Truthy(c.phone_number)

\* ---- C13 ----
\* Is c at least as old as d: earlier created_at, then lower id.
NotYounger(c, d) ==
    c.created_at < d.created_at \/ (c.created_at = d.created_at /\ c.id <= d.id)

\* C13: the oldest member of every cluster is a primary contact.
C13_OldestIsPrimary ==
    \A c \in Range(contacts) :
        (\A d \in ClusterOf(contacts, c) : NotYounger(c, d)) => IsPrimary(c)

\* ---- C16 ----
\* C16: every secondary contact is in the cluster of the contact it links to.
C16_LinkStaysInCluster ==
    \A c \in Range(contacts) :
        IsSecondary(c) =>
            /\ c.linked_id # None
            /\ HasId(contacts, c.linked_id[1])
            /\ ById(contacts, c.linked_id[1]) \in ClusterOf(contacts, c)

\* ---- store errors ----
\* The statements of a call that reach the database, in order.  A call that
\* inserts nothing runs the query only.
StoreSteps == {"query", "commit", "refresh"}

\* One whole call in which the statement `step` raises: the except branch
\* rolls the session back and answers 500.  A failed query leaves nothing
\* behind.  A failed COMMIT leaves no row, but its INSERT has run and the id
\* it took from the sequence is not given back.  refresh runs after the
\* commit has succeeded, so the rollback finds nothing to undo.
IdentifyFails(req, step, t) ==
    /\ ValidRequest(req)
    /\ LET existing == FindExisting(contacts, req)
           out == Complete(contacts, existing, req, NextId(seq), t)
       IN /\ step # "query" => Writes(existing, req) /\ seq < MaxContacts
          /\ contacts' = IF step = "refresh" THEN out.contacts ELSE contacts
          /\ seq' = IF step = "query" THEN seq ELSE NextId(seq)
          /\ last' = [kind |-> "error", email |-> req.email,
                      phone_number |-> req.phone_number,
                      pre |-> contacts, step |-> step]
    /\ UNCHANGED <<pc, call>>

NextStoreErrors ==
    \/ \E req \in BothFields, t \in ClockReadings : Identify(req, t)
    \/ \E req \in BothFields, step \in StoreSteps, t \in ClockReadings :
           IdentifyFails(req, step, t)

SpecStoreErrors == Init /\ [][NextStoreErrors]_vars

\* ---- C14 ----
\* C14: a call that ends with a store error leaves the table holding exactly
\* the contacts it held before the call.
C14_FailedCallLeavesNothing ==
    last.kind = "error" => contacts = last.pre

\* ---- the response as ordered lists ----
\* list(set(xs)): every element once, in the iteration order of the set, which
\* for strings depends on the hash seed of the process.
Orderings(S) ==
    {s \in [1..Cardinality(S) -> S] : \A i, j \in DOMAIN s : i # j => s[i] # s[j]}

\* One whole call, its response taken as the lists the caller receives.
IdentifyListed(req, t) ==
    /\ ValidRequest(req)
    /\ LET existing == FindExisting(contacts, req)
           out == Complete(contacts, existing, req, NextId(seq), t)
       IN /\ Writes(existing, req) => seq < MaxContacts
          /\ contacts' = out.contacts
          /\ seq' = IF Writes(existing, req) THEN NextId(seq) ELSE seq
          /\ \E es \in Orderings(out.resp.emails), ps \in Orderings(out.resp.phoneNumbers) :
                last' = [kind |-> "listed", email |-> req.email,
                         phone_number |-> req.phone_number,
                         pre |-> contacts,
                         primaryContactId |-> out.resp.primaryContactId,
                         emails |-> es, phoneNumbers |-> ps,
                         secondaryContactIds |-> out.resp.secondaryContactIds]
    /\ UNCHANGED <<pc, call>>

NextListed ==
    \E req \in BothFields, t \in ClockReadings : IdentifyListed(req, t)

SpecListed == Init /\ [][NextListed]_vars

\* ---- C15 ----
RECURSIVE Dedup(_)
\* s without its repeated values, first occurrences kept.
Dedup(s) ==
    IF s = <<>> THEN <<>>
    ELSE LET r == Dedup(SubSeq(s, 1, Len(s) - 1))
         IN IF s[Len(s)] \in Range(r) THEN r ELSE Append(r, s[Len(s)])

Ascending(S) ==
    CHOOSE s \in Orderings(S) : \A i, j \in DOMAIN s : i < j => s[i] < s[j]

\* The contacts of the last response: its primary, then its secondaries by
\* ascending id.
ResponseContacts ==
    LET ids == <<last.primaryContactId>> \o Ascending(Range(last.secondaryContactIds))
    IN [i \in DOMAIN ids |-> ById(contacts, ids[i])]

ExpectedEmails ==
    LET rows == SelectSeq(ResponseContacts, LAMBDA c : Truthy(c.email))
    IN Dedup([i \in DOMAIN rows |-> rows[i].email[1]])

ExpectedPhones ==
    LET rows == SelectSeq(ResponseContacts, LAMBDA c : Truthy(c.phone_number))
    IN Dedup([i \in DOMAIN rows |-> rows[i].phone_number[1]])

\* C15: emails and phoneNumbers list the primary's value first, then the
\* secondaries' values by ascending id without repeats, and
\* secondaryContactIds is in ascending order.
C15_ListsAreOrdered ==
    last.kind = "listed" =>
        /\ last.emails = ExpectedEmails
        /\ last.phoneNumbers = ExpectedPhones
        /\ \A i, j \in DOMAIN last.secondaryContactIds :
              i < j => last.secondaryContactIds[i] < last.secondaryContactIds[j]

\* The part of C15 the code does keep: secondaryContactIds ascends.
C15_SecondaryIdsAscend ==
    last.kind = "listed" =>
        \A i, j \in DOMAIN last.secondaryContactIds :
            i < j => last.secondaryContactIds[i] < last.secondaryContactIds[j]

\* ---- C17 ----
\* C17: a call leaves every stored contact as it was, removes none, and adds
\* at most one contact.
C17_CallOnlyAppends ==
    last.kind \in {"ok", "invalid"} =>
        /\ Len(last.pre) <= Len(contacts)
        /\ Len(contacts) <= Len(last.pre) + 1
        /\ \A i \in DOMAIN last.pre : contacts[i] = last.pre[i]

\* A call that joined the clusters of two primaries and added a contact.
C17_Witness ==
    /\ last.kind = "ok"
    /\ Len(contacts) = Len(last.pre) + 1
    /\ \E a, b \in Range(last.pre) : MergeCase(a, b)

\* ---- C18 ----
\* Bodies over one email and two phones, either field absent or present.
NarrowRequests == [email : {None, Some("e1")}, phone_number : Phones]

\* Bodies over one email and one phone, either field absent or present.
OneEachRequests == [email : {None, Some("e1")}, phone_number : {None, Some("p1")}]

\* Concurrent calls over one email and one phone.
NextConcurrentNarrow ==
    \/ \E p \in Procs, req \in OneEachRequests : Start(p, req)
    \/ \E p \in Procs : Handler(p)

SpecConcurrentNarrow == Init /\ [][NextConcurrentNarrow]_vars

\* Calls one at a time over one email and two phones.
NextNarrow ==
    \/ \E req \in NarrowRequests, t \in ClockReadings : Identify(req, t)
    \/ \E req \in NarrowRequests : IdentifyInvalid(req)

SpecNarrow == Init /\ [][NextNarrow]_vars

\* C18: a contact has no link exactly when it is primary, and every
\* secondary links to a stored contact of smaller id.
C18_LinksWellFormed ==
    \A c \in Range(contacts) :
        /\ (c.linked_id = None) <=> IsPrimary(c)
        /\ IsPrimary(c) \/ IsSecondary(c)
        /\ IsSecondary(c) =>
              /\ HasId(contacts, c.linked_id[1])
              /\ c.linked_id[1] < c.id

\* Two calls that ran concurrently have both committed a row, one of them a
\* secondary linked to the row of the other.
C18_Witness ==
    \E a, b \in Procs :
        /\ ConcurrentDone(a, b)
        /\ \E x \in call[a].created, y \in call[b].created :
              /\ IsSecondary(ById(contacts, y))
              /\ ById(contacts, y).linked_id = Some(x)

\* ---- C19 ----
\* C19: no two stored contacts carry the same (email, phone) pair, and a call
\* creates a contact only when no stored contact carries the submitted pair.
C19_PairsAreUnique ==
    /\ \A c, d \in Range(contacts) :
          (c.email = d.email /\ c.phone_number = d.phone_number) => c.id = d.id
    /\ (last.kind = "ok" /\ Len(contacts) > Len(last.pre)) =>
          ~HoldsPair(last.pre, [email |-> last.email, phone_number |-> last.phone_number])

\* A call whose pair, one field absent, is already stored among other
\* contacts: nothing is created.
C19_Witness ==
    /\ last.kind = "ok"
    /\ last.email = None \/ last.phone_number = None
    /\ HoldsPair(last.pre, [email |-> last.email, phone_number |-> last.phone_number])
    /\ contacts = last.pre
    /\ Len(contacts) >= 2

\* ---- C20 ----
\* The ids named by the last response.
ResponseIds ==
    {last.resp.primaryContactId} \cup Range(last.resp.secondaryContactIds)

\* C20: a response contains the submitted email and phone when they are
\* non-empty, names only stored contacts, repeats no secondary id and does
\* not list its primary among the secondaries.
C20_ResponseIsConsistent ==
    last.kind = "ok" =>
        /\ Truthy(last.email) => last.email[1] \in last.resp.emails
        /\ Truthy(last.phone_number) => last.phone_number[1] \in last.resp.phoneNumbers
        /\ \A id \in ResponseIds : HasId(contacts, id)
        /\ \A i, j \in DOMAIN last.resp.secondaryContactIds :
              i # j => last.resp.secondaryContactIds[i] # last.resp.secondaryContactIds[j]
        /\ last.resp.primaryContactId \notin Range(last.resp.secondaryContactIds)

\* A response with a primary and two secondaries to a pair already stored.
C20_Witness ==
    /\ last.kind = "ok"
    /\ Truthy(last.email) /\ Truthy(last.phone_number)
    /\ Len(last.resp.secondaryContactIds) = 2
    /\ contacts = last.pre

====
